---- MODULE Spec2Model ----
(***************************************************************************)
(* Model of llm_filter.py: the verdict extractor (extract_conclusion), the *)
(* classification driver (main) with its append-only .jsonl log and final  *)
(* report, and the topic filter/exporter (extract_papers_of_topic).        *)
(*                                                                         *)
(* Text is a sequence of one-character strings.  A Python value that may   *)
(* be None is wrapped: None is << >> and a value v is << v >>.             *)
(***************************************************************************)
EXTENDS Integers, Sequences, FiniteSets, TLC

\* ------------------------------------------------------------------ bounds
\* papers in the input of one run
MaxPapers == 2
\* runs of main() one after the other
MaxRuns == 2
\* papers and records given to all the runs together
MaxSubmitted == 3

\* result statements in one judge reply given to extract_conclusion on its own
MaxStatements == 3

\* ------------------------------------------------------------ Python None
None == << >>
Some(v) == << v >>

\* ------------------------------------------------------------------- text
UpperLetters == <<"A","B","C","D","E","F","G","H","I","J","K","L","M",
                  "N","O","P","Q","R","S","T","U","V","W","X","Y","Z">>
LowerLetters == <<"a","b","c","d","e","f","g","h","i","j","k","l","m",
                  "n","o","p","q","r","s","t","u","v","w","x","y","z">>
Digits == <<"0","1","2","3","4","5","6","7","8","9">>

Range(f) == { f[i] : i \in DOMAIN f }

\* A character beyond ASCII is written as one character of the model named
\* by its code point.  The texts of the model are drawn from ASCII, the
\* Unicode whitespace characters and the characters named here.
LatinSmallEAcute == "U+00E9"
LatinCapitalEAcute == "U+00C9"
LatinCapitalIDotAbove == "U+0130"
CombiningDotAbove == "U+0307"
LatinSmallLongS == "U+017F"
CjkFen == "U+5206"
ArabicIndicDigits == <<"U+0660", "U+0661", "U+0662">>
FullWidthDigits == <<"U+FF10", "U+FF11", "U+FF12">>

\* str.lower() on one character: a text, since one character can lower to two
LowerChar(c) ==
    IF \E i \in DOMAIN UpperLetters : UpperLetters[i] = c
    THEN << LowerLetters[CHOOSE i \in DOMAIN UpperLetters : UpperLetters[i] = c] >>
    ELSE IF c = LatinCapitalEAcute THEN << LatinSmallEAcute >>
    ELSE IF c = LatinCapitalIDotAbove THEN << "i", CombiningDotAbove >>
    ELSE << c >>

\* str.lower()
RECURSIVE Lower(_)
Lower(s) == IF s = << >> THEN << >> ELSE LowerChar(Head(s)) \o Lower(Tail(s))

\* the characters that match a lower-case letter of the pattern under
\* re.IGNORECASE: the letter, its capital, and for s the long s
IgnoreCase(letter) ==
    { letter, UpperLetters[CHOOSE i \in DOMAIN LowerLetters : LowerLetters[i] = letter] }
        \cup (IF letter = "s" THEN { LatinSmallLongS } ELSE {})

\* the characters of str.isspace(), which are those of the regex whitespace
\* class and the ones str.strip() removes
Whitespace ==
    {" ", "\t", "\n", "\r", "\f", "U+000B", "U+001C", "U+001D", "U+001E", "U+001F",
     "U+0085", "U+00A0", "U+1680", "U+2000", "U+2001", "U+2002", "U+2003",
     "U+2004", "U+2005", "U+2006", "U+2007", "U+2008", "U+2009", "U+200A",
     "U+2028", "U+2029", "U+202F", "U+205F", "U+3000"}

\* the regex whitespace class
IsSpace(c) == c \in Whitespace

\* the regex word class: letters, digits and the underscore, of any script
IsWord(c) ==
    c \in Range(UpperLetters) \cup Range(LowerLetters) \cup Range(Digits) \cup {"_"}
        \cup {LatinSmallEAcute, LatinCapitalEAcute, LatinCapitalIDotAbove,
              LatinSmallLongS, CjkFen}
        \cup Range(ArabicIndicDigits) \cup Range(FullWidthDigits)

\* a variant of WordBoundary that holds everywhere (the pattern without its
\* trailing word boundary)
WordBoundaryAnywhere(s, i) == TRUE

\* the regex word boundary at position i (between s[i-1] and s[i]); outside the text counts as non-word
WordBoundary(s, i) ==
    LET before == i - 1 \in DOMAIN s /\ IsWord(s[i - 1])
        after == i \in DOMAIN s /\ IsWord(s[i])
    IN before # after

\* int(str): whitespace at both ends, an optional sign, then decimal digits of
\* any script with single underscores between them.
\* IsIntText is "int() does not raise ValueError".
IsDigit(c) ==
    c \in Range(Digits) \cup Range(ArabicIndicDigits) \cup Range(FullWidthDigits)

DigitVal(c) ==
    IF c \in Range(Digits) THEN (CHOOSE i \in DOMAIN Digits : Digits[i] = c) - 1
    ELSE IF c \in Range(ArabicIndicDigits)
    THEN (CHOOSE i \in DOMAIN ArabicIndicDigits : ArabicIndicDigits[i] = c) - 1
    ELSE (CHOOSE i \in DOMAIN FullWidthDigits : FullWidthDigits[i] = c) - 1

\* the value of a run of digits and underscores
RECURSIVE DigitsVal(_)
DigitsVal(s) ==
    IF s = << >> THEN 0
    ELSE IF s[Len(s)] = "_" THEN DigitsVal(SubSeq(s, 1, Len(s) - 1))
    ELSE 10 * DigitsVal(SubSeq(s, 1, Len(s) - 1)) + DigitVal(s[Len(s)])

\* the whitespace int() ignores at both ends: str.isspace() without the four
\* separators U+001C to U+001F
IntSpace == Whitespace \ {"U+001C", "U+001D", "U+001E", "U+001F"}

RECURSIVE IntStrip(_)
IntStrip(s) ==
    IF s # << >> /\ s[1] \in IntSpace THEN IntStrip(Tail(s))
    ELSE IF s # << >> /\ s[Len(s)] \in IntSpace THEN IntStrip(SubSeq(s, 1, Len(s) - 1))
    ELSE s

\* the text of int() without the whitespace and the sign
IntBody(s) ==
    LET t == IntStrip(s)
    IN IF t # << >> /\ t[1] \in {"-", "+"} THEN Tail(t) ELSE t

IsIntText(s) ==
    LET body == IntBody(s)
    IN /\ body # << >>
       /\ IsDigit(body[1])
       /\ IsDigit(body[Len(body)])
       /\ \A i \in DOMAIN body :
              \/ IsDigit(body[i])
              \/ body[i] = "_" /\ IsDigit(body[i - 1]) /\ IsDigit(body[i + 1])

IntOf(s) ==
    IF IntStrip(s)[1] = "-" THEN 0 - DigitsVal(IntBody(s)) ELSE DigitsVal(IntBody(s))

\* ------------------------------------------------------ extract_conclusion
\* The pattern, with re.IGNORECASE: the word "result", whitespace, an optional
\* colon (ASCII or full-width), whitespace, any number of markup tokens (two
\* stars, a quote or a backtick), group 1 (an optional minus and 1, or 0),
\* any number of markup tokens, and a word boundary.
\* A position is the index of the next character to read; 0 means "no match".
ResultWord == <<"r","e","s","u","l","t">>

\* the literal "result", case-insensitively, at position i
MatchWord(s, i) ==
    IF i + Len(ResultWord) - 1 <= Len(s)
       /\ \A k \in DOMAIN ResultWord : s[i + k - 1] \in IgnoreCase(ResultWord[k])
    THEN i + Len(ResultWord)
    ELSE 0

\* a whitespace run: what follows in the pattern never starts with whitespace, so the
\* greedy run is the only length that can lead to a match
RECURSIVE SkipSpaces(_, _)
SkipSpaces(s, i) ==
    IF i \in DOMAIN s /\ IsSpace(s[i]) THEN SkipSpaces(s, i + 1) ELSE i

\* the full-width colon U+FF1A, written as one character of the model
FullWidthColon == "U+FF1A"

\* the optional colon
SkipColon(s, i) ==
    IF i \in DOMAIN s /\ s[i] \in {":", FullWidthColon} THEN i + 1 ELSE i

\* the backtick, written as one character of the model
Backtick == "BACKTICK"

\* one markup token (two stars, a quote or a backtick) at position i, or 0
MarkupToken(s, i) ==
    IF i \in DOMAIN s /\ s[i] \in {"'", Backtick} THEN i + 1
    ELSE IF i + 1 \in DOMAIN s /\ s[i] = "*" /\ s[i + 1] = "*" THEN i + 2
    ELSE 0

\* the markup group: every position the group can stop at, starting from i
RECURSIVE MarkupEnds(_, _)
MarkupEnds(s, i) ==
    IF MarkupToken(s, i) = 0 THEN {i}
    ELSE {i} \cup MarkupEnds(s, MarkupToken(s, i))

\* group 1 at position i: the position after the value, or 0
\* the value without its optional minus sign
MatchValueUnsigned(s, i) ==
    IF i \in DOMAIN s /\ s[i] \in {"1", "0"} THEN i + 1
    ELSE 0

MatchValue(s, i) ==
    IF i + 1 \in DOMAIN s /\ s[i] = "-" /\ s[i + 1] = "1" THEN i + 2
    ELSE IF i \in DOMAIN s /\ s[i] \in {"1", "0"} THEN i + 1
    ELSE 0

Max(S) == CHOOSE x \in S : \A y \in S : y <= x

\* One attempt of the pattern at position i.  The result is <<group, end>>
\* (the text of group 1 and the position after the match) or << >>.
\* The trailing markup group is greedy and backtracks until the word boundary holds.
MatchAt(s, i) ==
    LET w == MatchWord(s, i)
        p == SkipSpaces(s, SkipColon(s, SkipSpaces(s, w)))
        starts == { q \in MarkupEnds(s, p) : MatchValue(s, q) # 0 }
    IN IF w = 0 \/ starts = {} THEN << >>
       ELSE LET q == Max(starts)
                v == MatchValue(s, q)
                ends == { e \in MarkupEnds(s, v) : WordBoundary(s, e) }
            IN IF ends = {} THEN << >>
               ELSE << SubSeq(s, q, v - 1), Max(ends) >>

\* re.findall(pattern, s): the group-1 texts of the non-overlapping matches,
\* scanning left to right from position i
RECURSIVE FindAll(_, _)
FindAll(s, i) ==
    IF i > Len(s) THEN << >>
    ELSE IF MatchAt(s, i) = << >> THEN FindAll(s, i + 1)
    ELSE << MatchAt(s, i)[1] >> \o FindAll(s, MatchAt(s, i)[2])

\* extract_conclusion(llm_output); llm_output is None or Some(text)
\* the first match taken instead of the last
extract_conclusionFirstMatch(llm_output) ==
    IF llm_output = None \/ llm_output[1] = << >> THEN None
    ELSE LET matches == FindAll(llm_output[1], 1)
         IN IF matches # << >>
            THEN IF ~IsIntText(matches[1]) THEN None
                 ELSE LET val == IntOf(matches[1])
                      IN IF val \in {-1, 0, 1} THEN Some(val) ELSE None
            ELSE None

extract_conclusion(llm_output) ==
    IF llm_output = None \/ llm_output[1] = << >> THEN None
    ELSE LET matches == FindAll(llm_output[1], 1)
         IN IF matches # << >>
            THEN IF ~IsIntText(matches[Len(matches)]) THEN None
                 ELSE LET val == IntOf(matches[Len(matches)])
                      IN IF val \in {-1, 0, 1} THEN Some(val) ELSE None
            ELSE None

\* ------------------------------------------------------------ the records
\* args.conf and args.year of the run
Conf == "CVPR"
Year == "2025"

\* the operator's topic description
Topics == {"vision"}

\* ppinfo entries of the input document
PaperA == [title |-> "A", abstract |-> "x"]
PaperB == [title |-> "B", abstract |-> "y"]
Papers == {PaperA, PaperB}

\* the sequences over S of length at most n
SeqsUpTo(S, n) == UNION { [1..k -> S] : k \in 0..n }

\* response.choices[0].message.content: None or a text
ReplyRelevant == <<"A","n","a","l","y","s","i","s",":"," ","o","k","\n",
                   "R","e","s","u","l","t",":"," ","1">>
ReplyOutOfRange == <<"R","e","s","u","l","t",":"," ","1","0">>
JudgeReplies == {Some(ReplyRelevant), Some(ReplyOutOfRange)}

\* replies[0]
Header(topic_desc) == [topic_desc |-> topic_desc, venue |-> Conf, year |-> Year]

\* a variant of ReplyDict that stores the abstract under both keys
ReplyDictAbstractTwice(ppinfo, reply) ==
    [paper_title |-> ppinfo.abstract,
     paper_abstract |-> ppinfo.abstract,
     is_of_topic |-> extract_conclusion(reply),
     llm_analysis |-> reply]

\* reply_dict
ReplyDict(ppinfo, reply) ==
    [paper_title |-> ppinfo.title,
     paper_abstract |-> ppinfo.abstract,
     is_of_topic |-> extract_conclusion(reply),
     llm_analysis |-> reply]

\* r.get(key, None)
Get(r, key) == IF key \in DOMAIN r THEN r[key] ELSE None

\* ------------------------------------------------------------------ files
\* A file is absent, or holds a sequence of records.  "partial" is a file
\* that open(..., 'w') created or truncated and whose document was not
\* written completely, or a log that holds the beginning of a line whose write
\* failed.
NoFile == [st |-> "absent", items |-> << >>]
EmptyFile == [st |-> "partial", items |-> << >>]
Document(items) == [st |-> "whole", items |-> items]

\* os.path.exists
Exists(file) == file.st # "absent"

\* a variant of LogMode that opens the log with "w" whether or not it exists
LogModeAlwaysWrite(file) == "w"

\* "a" if os.path.exists(output_jsonl) else "w"
LogMode(file) == IF Exists(file) THEN "a" ELSE "w"

\* a variant of OpenLog that truncates the file in append mode too
OpenLogTruncates(file, mode) == Document(<< >>)

\* the content of the log right after open(output_jsonl, mode)
OpenLog(file, mode) == IF mode = "a" /\ Exists(file) THEN file ELSE Document(<< >>)

\* the beginning of a line without its end: what a write that fails half-way
\* leaves in the log, whatever the record
TornLine == [torn |-> TRUE]

IsTorn(item) == item = TornLine

\* f.write(json.dumps(reply_dict) + "\n") on the opened log: the line is put
\* after whatever the file holds, a torn line included
WriteLine(file, rec) == [st |-> file.st, items |-> Append(file.items, rec)]

\* the same write failing after a part of the line went to the file
WriteTorn(file) == [st |-> "partial", items |-> Append(file.items, TornLine)]

\* the whole text of rec without the newline that ends its line: what the
\* write leaves when it fails at the last byte
Unterminated(rec) == [unterminated |-> rec]

IsUnterminated(item) == DOMAIN item = {"unterminated"}

\* the same write failing after the text of the record, before the newline
WriteUnterminated(file, rec) ==
    [st |-> "partial", items |-> Append(file.items, Unterminated(rec))]

\* the item has no newline: what is written next continues its line
IsOpenEnded(item) == IsTorn(item) \/ IsUnterminated(item)

\* what a reader of the log finds line by line (json.loads of each line).  A
\* line is the items up to the next newline: it parses when it is one record,
\* with its newline or, at the end of the file, without; a torn line, and
\* whatever stands on one line with another item, does not parse.
Unparseable == [unparseable |-> TRUE]

\* the lines of items, of which the first joined items stand on one line
\* with items[joined + 1]
RECURSIVE LinesFrom(_, _)
LinesFrom(items, joined) ==
    IF Len(items) = joined
    THEN IF joined = 0 THEN << >>
         ELSE IF joined = 1 /\ IsUnterminated(items[1]) THEN << items[1].unterminated >>
         ELSE << Unparseable >>
    ELSE IF IsOpenEnded(items[joined + 1]) THEN LinesFrom(items, joined + 1)
    ELSE (IF joined = 0 THEN << items[1] >> ELSE << Unparseable >>)
             \o LinesFrom(SubSeq(items, joined + 2, Len(items)), 0)

Lines(items) == LinesFrom(items, 0)

\* -------------------------------------------------- extract_papers_of_topic
\* str.strip(): whitespace removed at both ends
RECURSIVE StripLeft(_)
StripLeft(s) == IF s # << >> /\ IsSpace(s[1]) THEN StripLeft(Tail(s)) ELSE s

RECURSIVE StripRight(_)
StripRight(s) ==
    IF s # << >> /\ IsSpace(s[Len(s)]) THEN StripRight(SubSeq(s, 1, Len(s) - 1)) ELSE s

Strip(s) == StripRight(StripLeft(s))

\* str.replace(' ', '')
RECURSIVE RemoveSpaces(_)
RemoveSpaces(s) ==
    IF s = << >> THEN << >>
    ELSE IF s[1] = " " THEN RemoveSpaces(Tail(s))
    ELSE << s[1] >> \o RemoveSpaces(Tail(s))

\* str.split(','): the fields between the commas; the empty text gives one empty field
RECURSIVE Split(_, _)
Split(s, field) ==
    IF s = << >> THEN << field >>
    ELSE IF s[1] = "," THEN << field >> \o Split(Tail(s), << >>)
    ELSE Split(Tail(s), Append(field, s[1]))

\* One pass of the body of the while loop on the operator's answer, after the
\* test for 'n'.  ok is FALSE when int() or the assertion raises; otherwise
\* set is the value of approved_topics that leaves the loop.
ParseSelection(line) ==
    LET fields == Split(RemoveSpaces(Strip(line)), << >>)
    IN IF \E k \in DOMAIN fields : ~IsIntText(fields[k])
       THEN [ok |-> FALSE, set |-> {}]
       ELSE LET chosen == { IntOf(fields[k]) : k \in DOMAIN fields }
            IN IF -1 \in chosen \/ 0 \in chosen \/ 1 \in chosen
               THEN [ok |-> TRUE, set |-> chosen]
               ELSE [ok |-> FALSE, set |-> {}]

\* a variant of Approved that reads a null or missing verdict as 0
ApprovedNullIsUnsure(r, approved) ==
    LET topic_result == Get(r, "is_of_topic")
    IN IF topic_result = None THEN 0 \in approved
       ELSE topic_result[1] \in approved

\* the test of the loop body on record r
Approved(r, approved) ==
    LET topic_result == Get(r, "is_of_topic")
    IN IF topic_result = None THEN FALSE
       ELSE topic_result[1] \in approved

\* the for loop that builds replies_of_topic, from index k on
RECURSIVE RepliesOfTopic(_, _, _)
\* the first record taken for the header and dropped whatever it is
RepliesOfTopicSkipsFirst(rs, approved, k) ==
    IF k > Len(rs) THEN << >>
    ELSE IF k > 1 /\ Approved(rs[k], approved)
         THEN << rs[k] >> \o RepliesOfTopic(rs, approved, k + 1)
         ELSE RepliesOfTopic(rs, approved, k + 1)

RepliesOfTopic(rs, approved, k) ==
    IF k > Len(rs) THEN << >>
    ELSE IF Approved(rs[k], approved)
         THEN << rs[k] >> \o RepliesOfTopic(rs, approved, k + 1)
         ELSE RepliesOfTopic(rs, approved, k + 1)

\* the operator's answers to the prompt
AnswerN == <<"n">>
AnswerUpperN == <<"N">>
AnswerEmpty == << >>
AnswerOne == <<"1">>
AnswerTwo == <<"2">>
AnswerWord == <<"y","e","s">>
AnswerMinusOneZero == <<" ","-","1",","," ","0">>
AnswerOneTwo == <<"1",",","2">>
AnswerAll == <<"-","1",",","0",",","1">>
AnswerEmptyField == <<"1",",",",","0">>
AnswerFullWidthOne == <<"U+FF11">>
AnswerUnderscore == <<"0","_","1">>
AnswerTabField == <<"1",",","\t","0">>
AnswerCarriageReturn == <<"1","\r">>
Answers == {AnswerN, AnswerUpperN, AnswerEmpty, AnswerOne, AnswerTwo, AnswerWord,
            AnswerMinusOneZero, AnswerOneTwo, AnswerAll, AnswerEmptyField,
            AnswerFullWidthOne, AnswerUnderscore, AnswerTabField,
            AnswerCarriageReturn}

\* the answers tried at the end of a classification run
RunAnswers == {AnswerN, AnswerOne}

\* the records of a document given to --only_filter_topic
LoadedRecord(title, verdict) ==
    [paper_title |-> title, paper_abstract |-> "x",
     is_of_topic |-> verdict, llm_analysis |-> Some(<<"o","k">>)]
LoadedRecords ==
    { Header("vision"),
      LoadedRecord("A", Some(1)), LoadedRecord("B", Some(0)), LoadedRecord("D", None),
      LoadedRecord("E", Some(2)) }

\* ---------------------------------------------------------------- state
VARIABLES
    pc,              \* where main() is: see Running and Ended
    mode,            \* "classify", or "filter" for --only_filter_topic
    ppinfo_list,     \* the input papers of the run
    done,            \* the number of completed iterations of the for loop
    replies,         \* the in-memory report
    judgeCalls,      \* the indices of the papers sent to the judge in this run
    approved_topics, \* the accepted set that left the prompt loop
    logFile,         \* the file at output_jsonl
    outFile,         \* the file at output
    exportFile,      \* the file at the export path of this run
    runs,            \* the number of runs started
    submitted,       \* the number of papers and records given to the runs so far
    logAtStart,      \* history: logFile when the run started
    outAtStart,      \* history: outFile when the run started
    removed,         \* history: os.remove(output_jsonl) was done in this run
    exported,        \* history: the export was written in this run
    \* the frames of the two functions that are also examined on their own
    \* (SpecExtract, SpecPrompt); the runs of main() use the same operators
    \* inside JudgeCall and leave these frames alone
    statements,      \* the statements the judge wrote, rendered as llm_output
    llm_output,      \* the argument of extract_conclusion
    conclusion,      \* the value extract_conclusion returned
    prompt_args,     \* the five values substituted into PPFILTER_USRPROMPT
    ppfilter_user    \* the user message built from them

vars == <<pc, mode, ppinfo_list, done, replies, judgeCalls, approved_topics,
          logFile, outFile, exportFile, runs, submitted, logAtStart, outAtStart, removed,
          exported, statements, llm_output, conclusion, prompt_args, ppfilter_user>>

frames == <<statements, llm_output, conclusion, prompt_args, ppfilter_user>>

files == <<logFile, outFile, exportFile>>

\* main() is executing
Running == {"confirm", "judge", "log_open", "log_write", "report_open",
            "report_write", "remove", "prompt", "export_open", "export_write"}

\* main() returned ("returned"), raised, or was interrupted from outside
Raised == {"read_failed", "judge_failed", "log_failed", "report_failed",
           "remove_failed", "export_failed"}
Ended == {"idle", "returned", "interrupted"} \cup Raised

\* no function call is under examination
NoFrames ==
    /\ statements = << >>
    /\ llm_output = None
    /\ conclusion = None
    /\ prompt_args = << >>
    /\ ppfilter_user = << >>

\* no process has run yet and none of the files exists
NoRun ==
    /\ mode = "classify"
    /\ ppinfo_list = << >>
    /\ done = 0
    /\ replies = << >>
    /\ judgeCalls = << >>
    /\ approved_topics = {}
    /\ logFile = NoFile
    /\ outFile = NoFile
    /\ exportFile = NoFile
    /\ runs = 0
    /\ submitted = 0
    /\ logAtStart = NoFile
    /\ outAtStart = NoFile
    /\ removed = FALSE
    /\ exported = FALSE

\* the variables of the runs of main(), for the steps that examine a function
\* on its own
run == <<mode, ppinfo_list, done, replies, judgeCalls, approved_topics,
         logFile, outFile, exportFile, runs, submitted, logAtStart, outAtStart, removed,
         exported>>

\* No process has run yet and none of the files exists.
Init ==
    /\ NoFrames
    /\ NoRun
    /\ pc = "idle"

\* the state that every start of main() sets, whatever the mode.  The export
\* path carries run_time, the start of the run to the second: it names a new
\* file, or the file of the run before when both start in the same second.
\* The runs end after MaxRuns starts and MaxSubmitted papers and records.
Begin(m, papers, rs, next, same_second) ==
    /\ pc \in Ended
    /\ runs < MaxRuns
    /\ runs' = runs + 1
    /\ submitted + Len(papers) + Len(rs) <= MaxSubmitted
    /\ submitted' = submitted + Len(papers) + Len(rs)
    /\ mode' = m
    /\ ppinfo_list' = papers
    /\ replies' = rs
    /\ done' = 0
    /\ judgeCalls' = << >>
    /\ approved_topics' = {}
    /\ exportFile' = IF same_second THEN exportFile ELSE NoFile
    /\ logAtStart' = logFile
    /\ outAtStart' = outFile
    /\ removed' = FALSE
    /\ exported' = FALSE
    /\ pc' = next
    /\ UNCHANGED <<logFile, outFile>>
    /\ UNCHANGED frames

\* main() up to the "Continue?" prompt, with -o naming the same output path
\* in every run: the papers are read, nothing is written yet.  readable =
\* FALSE: the read of the input document raises.
StartRun(papers, readable, same_second) ==
    IF readable
    THEN Begin("classify", papers, << >>, "confirm", same_second)
    ELSE papers = << >> /\ Begin("classify", << >>, << >>, "read_failed", same_second)

\* the answer to "Continue?": 'n' returns, anything else sets up replies and
\* enters the for loop (or leaves it at once when there is no paper)
Confirm(continue, topic_desc) ==
    /\ pc = "confirm"
    /\ IF ~continue
       THEN pc' = "returned" /\ UNCHANGED replies
       ELSE /\ replies' = << Header(topic_desc) >>
            /\ pc' = IF ppinfo_list = << >> THEN "report_open" ELSE "judge"
    /\ UNCHANGED <<mode, ppinfo_list, done, judgeCalls, approved_topics, files,
                   runs, submitted, logAtStart, outAtStart, removed, exported>>
    /\ UNCHANGED frames

\* a variant of JudgeCall that appends a placeholder result for the paper
\* whose judge call raised before the exception leaves the loop
JudgeCallRecordsFailure(answered, reply) ==
    /\ pc = "judge"
    /\ judgeCalls' = Append(judgeCalls, done + 1)
    /\ IF ~answered
       THEN /\ pc' = "judge_failed"
            /\ replies' = Append(replies, ReplyDict(ppinfo_list[done + 1], None))
       ELSE /\ replies' = Append(replies, ReplyDict(ppinfo_list[done + 1], reply))
            /\ pc' = "log_open"
    /\ UNCHANGED <<mode, ppinfo_list, done, approved_topics, files,
                   runs, submitted, logAtStart, outAtStart, removed, exported>>
    /\ UNCHANGED frames

\* one iteration up to replies.append: the prompt is sent to the judge, which
\* raises or answers; the answer is parsed and appended to replies
JudgeCall(answered, reply) ==
    /\ pc = "judge"
    /\ judgeCalls' = Append(judgeCalls, done + 1)
    /\ IF ~answered
       THEN pc' = "judge_failed" /\ UNCHANGED replies
       ELSE /\ replies' = Append(replies, ReplyDict(ppinfo_list[done + 1], reply))
            /\ pc' = "log_open"
    /\ UNCHANGED <<mode, ppinfo_list, done, approved_topics, files,
                   runs, submitted, logAtStart, outAtStart, removed, exported>>
    /\ UNCHANGED frames

\* open(output_jsonl, mode): raises and leaves the path alone, or opens the
\* log, creating it when there is none
LogOpen(opened) ==
    /\ pc = "log_open"
    /\ IF opened
       THEN logFile' = OpenLog(logFile, LogMode(logFile)) /\ pc' = "log_write"
       ELSE pc' = "log_failed" /\ UNCHANGED logFile
    /\ UNCHANGED <<mode, ppinfo_list, done, replies, judgeCalls, approved_topics,
                   outFile, exportFile, runs, submitted, logAtStart, outAtStart, removed,
                   exported>>
    /\ UNCHANGED frames

\* a variant of LogWrite that keeps the record in memory only and lets the
\* loop move on without writing it
LogWriteBuffered(written) ==
    /\ pc = "log_write"
    /\ IF written # "all"
       THEN pc' = "log_failed" /\ UNCHANGED <<logFile, done>>
       ELSE /\ logFile' = logFile
            /\ done' = done + 1
            /\ pc' = IF done + 1 < Len(ppinfo_list) THEN "judge" ELSE "report_open"
    /\ UNCHANGED <<mode, ppinfo_list, replies, judgeCalls, approved_topics,
                   outFile, exportFile, runs, submitted, logAtStart, outAtStart, removed,
                   exported>>
    /\ UNCHANGED frames

\* f.write of the line of reply_dict and the close of the log, which ends the
\* iteration.  written is "all", or the write raises with nothing ("none"),
\* the beginning of the line ("part") or the line without its newline
\* ("text") in the file.
LogWrite(written) ==
    /\ pc = "log_write"
    /\ LET reply_dict == replies[Len(replies)]
       IN IF written = "none"
          THEN pc' = "log_failed" /\ UNCHANGED <<logFile, done>>
          ELSE IF written = "part"
          THEN pc' = "log_failed" /\ logFile' = WriteTorn(logFile)
                                  /\ UNCHANGED done
          ELSE IF written = "text"
          THEN pc' = "log_failed" /\ logFile' = WriteUnterminated(logFile, reply_dict)
                                  /\ UNCHANGED done
          ELSE /\ logFile' = WriteLine(logFile, reply_dict)
               /\ done' = done + 1
               /\ pc' = IF done + 1 < Len(ppinfo_list) THEN "judge" ELSE "report_open"
    /\ UNCHANGED <<mode, ppinfo_list, replies, judgeCalls, approved_topics,
                   outFile, exportFile, runs, submitted, logAtStart, outAtStart, removed,
                   exported>>
    /\ UNCHANGED frames

\* open(output, 'w'): raises and leaves the path alone, or creates or
\* truncates the file
ReportOpen(opened) ==
    /\ pc = "report_open"
    /\ IF opened
       THEN outFile' = EmptyFile /\ pc' = "report_write"
       ELSE pc' = "report_failed" /\ UNCHANGED outFile
    /\ UNCHANGED <<mode, ppinfo_list, done, replies, judgeCalls, approved_topics,
                   logFile, exportFile, runs, submitted, logAtStart, outAtStart, removed,
                   exported>>
    /\ UNCHANGED frames

\* a variant of ReportWrite that catches the error of the write and goes on
ReportWriteSwallows(written) ==
    /\ pc = "report_write"
    /\ IF written
       THEN outFile' = Document(replies) /\ pc' = "remove"
       ELSE pc' = "remove" /\ UNCHANGED outFile
    /\ UNCHANGED <<mode, ppinfo_list, done, replies, judgeCalls, approved_topics,
                   logFile, exportFile, runs, submitted, logAtStart, outAtStart, removed,
                   exported>>
    /\ UNCHANGED frames

\* f.write(json.dumps(replies)) and the close of the file: the whole document
\* is in the file, or the write raises and the document is incomplete
ReportWrite(written) ==
    /\ pc = "report_write"
    /\ IF written
       THEN outFile' = Document(replies) /\ pc' = "remove"
       ELSE pc' = "report_failed" /\ UNCHANGED outFile
    /\ UNCHANGED <<mode, ppinfo_list, done, replies, judgeCalls, approved_topics,
                   logFile, exportFile, runs, submitted, logAtStart, outAtStart, removed,
                   exported>>
    /\ UNCHANGED frames

\* if os.path.exists(output): os.remove(output_jsonl); os.remove raises
\* FileNotFoundError when there is no log, and PermissionError when the
\* process may not remove the log (permitted = FALSE), which stays
RemoveLog(permitted) ==
    /\ pc = "remove"
    /\ IF ~Exists(outFile)
       THEN pc' = "prompt" /\ UNCHANGED <<logFile, removed>>
       ELSE IF ~Exists(logFile) \/ ~permitted
       THEN pc' = "remove_failed" /\ UNCHANGED <<logFile, removed>>
       ELSE logFile' = NoFile /\ removed' = TRUE /\ pc' = "prompt"
    /\ UNCHANGED <<mode, ppinfo_list, done, replies, judgeCalls, approved_topics,
                   outFile, exportFile, runs, submitted, logAtStart, outAtStart, exported>>
    /\ UNCHANGED frames

\* main() with --only_filter_topic: replies is the document read from the
\* file.  readable = FALSE: the read of the document raises.
StartFilterOnly(rs, readable, same_second) ==
    IF readable
    THEN Begin("filter", << >>, rs, "prompt", same_second)
    ELSE rs = << >> /\ Begin("filter", << >>, << >>, "read_failed", same_second)

\* extract_papers_of_topic: one answer of the operator.  'n' returns; an
\* answer that raises prompts again; an accepted answer leaves the loop with
\* approved_topics set.
Prompt(line) ==
    /\ pc = "prompt"
    /\ IF Lower(line) = <<"n">>
       THEN pc' = "returned" /\ UNCHANGED approved_topics
       ELSE LET selection == ParseSelection(line)
            IN IF ~selection.ok
               THEN UNCHANGED <<pc, approved_topics>>
               ELSE /\ approved_topics' = selection.set
                    /\ pc' = "export_open"
    /\ UNCHANGED <<mode, ppinfo_list, done, replies, judgeCalls, files,
                   runs, submitted, logAtStart, outAtStart, removed, exported>>
    /\ UNCHANGED frames

\* open(out_path, 'w') after the filter loop: raises and leaves the path
\* alone, or creates or truncates the file
ExportOpen(opened) ==
    /\ pc = "export_open"
    /\ IF opened
       THEN exportFile' = EmptyFile /\ pc' = "export_write"
       ELSE pc' = "export_failed" /\ UNCHANGED exportFile
    /\ UNCHANGED <<mode, ppinfo_list, done, replies, judgeCalls, approved_topics,
                   logFile, outFile, runs, submitted, logAtStart, outAtStart, removed,
                   exported>>
    /\ UNCHANGED frames

\* f.write(json.dumps(replies_of_topic)) and the close of the export
ExportWrite(written) ==
    /\ pc = "export_write"
    /\ IF written
       THEN /\ exportFile' = Document(RepliesOfTopic(replies, approved_topics, 1))
            /\ exported' = TRUE
            /\ pc' = "returned"
       ELSE pc' = "export_failed" /\ UNCHANGED <<exportFile, exported>>
    /\ UNCHANGED <<mode, ppinfo_list, done, replies, judgeCalls, approved_topics,
                   logFile, outFile, runs, submitted, logAtStart, outAtStart, removed>>
    /\ UNCHANGED frames

\* the process is killed or interrupted between two steps
Interrupt ==
    /\ pc \in Running
    /\ pc' = "interrupted"
    /\ UNCHANGED <<mode, ppinfo_list, done, replies, judgeCalls, approved_topics,
                   files, runs, submitted, logAtStart, outAtStart, removed, exported>>
    /\ UNCHANGED frames

\* how many papers or records the next run can be given, at most most
Room(most) ==
    IF MaxSubmitted - submitted < most THEN MaxSubmitted - submitted ELSE most

\* The runs of main() without --only_filter_topic, one after the other on
\* the same output path.
Next ==
    \/ \E papers \in SeqsUpTo(Papers, Room(MaxPapers)), readable, same_second \in BOOLEAN :
           StartRun(papers, readable, same_second)
    \/ \E continue \in BOOLEAN, topic_desc \in Topics : Confirm(continue, topic_desc)
    \/ \E answered \in BOOLEAN, reply \in JudgeReplies : JudgeCall(answered, reply)
    \/ \E opened \in BOOLEAN : LogOpen(opened)
    \/ \E written \in {"all", "text", "part", "none"} : LogWrite(written)
    \/ \E opened \in BOOLEAN : ReportOpen(opened)
    \/ \E written \in BOOLEAN : ReportWrite(written)
    \/ \E permitted \in BOOLEAN : RemoveLog(permitted)
    \/ \E line \in RunAnswers : Prompt(line)
    \/ \E opened \in BOOLEAN : ExportOpen(opened)
    \/ \E written \in BOOLEAN : ExportWrite(written)
    \/ Interrupt

Spec == Init /\ [][Next]_vars

\* The runs of main() with --only_filter_topic, which read a document and
\* touch neither the log nor the report.
NextFilter ==
    \/ \E rs \in SeqsUpTo(LoadedRecords, Room(MaxPapers + 1)), readable, same_second \in BOOLEAN :
           StartFilterOnly(rs, readable, same_second)
    \/ \E line \in Answers : Prompt(line)
    \/ \E opened \in BOOLEAN : ExportOpen(opened)
    \/ \E written \in BOOLEAN : ExportWrite(written)
    \/ Interrupt

SpecFilter == Init /\ [][NextFilter]_vars

\* --------------------------------------- extract_conclusion on its own
\* A judge reply is written as a sequence of statements, one per line.  A
\* statement is a keyword, an optional colon, a blank, and a value token
\* inside optional markup; a digit may stand directly before or after the
\* value token.
Statement(keyword, colon, markup, before, value, after) ==
    [keyword |-> keyword, colon |-> colon, markup |-> markup,
     before |-> before, value |-> value, after |-> after]

Render(st) ==
    st.keyword \o st.colon \o <<" ">> \o st.markup
        \o st.before \o st.value \o st.after \o st.markup

RECURSIVE Text(_)
Text(sts) ==
    IF sts = << >> THEN << >>
    ELSE Render(Head(sts)) \o <<"\n">> \o Text(Tail(sts))

KeywordResult == <<"R","e","s","u","l","t">>
KeywordUpper == <<"R","E","S","U","L","T">>
KeywordLongS == <<"R","e",LatinSmallLongS,"u","l","t">>
KeywordNote == <<"N","o","t","e">>
Colon == <<":">>
Bold == <<"*","*">>
MinusOne == <<"-","1">>

ValueTokens == {<<"1">>, <<"0">>, MinusOne}

\* the statements of the replies with several statements
PlainStatements ==
    { Statement(KeywordResult, Colon, << >>, << >>, v, << >>) : v \in ValueTokens }
    \cup { Statement(KeywordResult, Colon, << >>, << >>, <<"1">>, <<"0">>),
           Statement(KeywordResult, Colon, << >>, << >>, <<"2">>, << >>),
           Statement(KeywordLongS, Colon, << >>, << >>, <<"0">>, << >>),
           Statement(KeywordNote, Colon, << >>, << >>, <<"1">>, << >>) }

AdjacentDigits == {<<"0">>, <<"1">>, <<"7">>, << FullWidthDigits[2] >>}

\* the digit directly before and after the value token: none, or one of them
Adjacency ==
    {<< << >>, << >> >>}
    \cup { <<d, << >> >> : d \in AdjacentDigits }
    \cup { << << >>, d>> : d \in AdjacentDigits }

\* the forms of a single result statement
Forms ==
    { Statement(k, c, m, a[1], v, a[2]) :
        k \in {KeywordResult, KeywordUpper, KeywordLongS},
        c \in {<< >>, Colon, <<FullWidthColon>>},
        m \in {<< >>, Bold, <<"'">>, <<Backtick>>},
        v \in ValueTokens,
        a \in Adjacency }

InitExtract ==
    /\ NoRun
    /\ pc = "extract"
    /\ conclusion = None
    /\ prompt_args = << >>
    /\ ppfilter_user = << >>
    /\ \/ /\ statements \in SeqsUpTo(PlainStatements, MaxStatements)
          /\ llm_output = Some(Text(statements))
       \/ /\ statements \in { <<f>> : f \in Forms }
          /\ llm_output = Some(Text(statements))
       \/ /\ statements = << >>
          /\ llm_output = None

Extract ==
    /\ pc = "extract"
    /\ conclusion' = extract_conclusion(llm_output)
    /\ pc' = "extracted"
    /\ UNCHANGED <<statements, llm_output, prompt_args, ppfilter_user>>
    /\ UNCHANGED run

NextExtract == Extract

SpecExtract == InitExtract /\ [][NextExtract]_vars


\* ------------------------------------------------ the user message on its own
\* the five placeholders of the template
PlaceholderTopic ==
    <<"{","{","t","o","p","i","c","_","d","e","s","c","r","i","p","t","i",
      "o","n","}","}">>
PlaceholderTitle ==
    <<"{","{","p","a","p","e","r","_","t","i","t","l","e","}","}">>
PlaceholderVenue ==
    <<"{","{","p","a","p","e","r","_","v","e","n","u","e","}","}">>
PlaceholderYear ==
    <<"{","{","p","a","p","e","r","_","y","e","a","r","}","}">>
PlaceholderAbstract ==
    <<"{","{","p","a","p","e","r","_","a","b","s","t","r","a","c","t","}",
      "}">>

\* the template of the user message, character by character
PPFILTER_USRPROMPT ==
    <<"#","#","#"," ","T","a","r","g","e","t"," ","T","o","p","i","c","/",
      "D","o","m","a","i","n"," ","D","e","s","c","r","i","p","t","i","o",
      "n","\n","{","{","t","o","p","i","c","_","d","e","s","c","r","i","p",
      "t","i","o","n","}","}","\n","\n","#","#","#"," ","P","a","p","e","r",
      " ","I","n","f","o","r","m","a","t","i","o","n","\n","*","*","T","i",
      "t","l","e",":","*","*"," ","{","{","p","a","p","e","r","_","t","i",
      "t","l","e","}","}","\n","*","*","V","e","n","u","e"," ","&"," ","Y",
      "e","a","r",":","*","*"," ","{","{","p","a","p","e","r","_","v","e",
      "n","u","e","}","}",","," ","{","{","p","a","p","e","r","_","y","e",
      "a","r","}","}","\n","*","*","A","b","s","t","r","a","c","t",":","*",
      "*","\n","{","{","p","a","p","e","r","_","a","b","s","t","r","a","c",
      "t","}","}","\n","\n","-","-","-","\n","B","a","s","e","d"," ","o",
      "n"," ","t","h","e"," ","i","n","s","t","r","u","c","t","i","o","n",
      "s",","," ","p","l","e","a","s","e"," ","p","r","o","v","i","d","e",
      " ","t","h","e"," ","A","n","a","l","y","s","i","s"," ","a","n","d",
      " ","R","e","s","u","l","t",".","\n">>

\* str.find: the first place where old starts in s, 0 when there is none
Find(s, old) ==
    LET hits == { i \in 1..(Len(s) - Len(old) + 1) :
                    SubSeq(s, i, i + Len(old) - 1) = old }
    IN IF hits = {} THEN 0 ELSE CHOOSE i \in hits : \A j \in hits : i <= j

\* str.replace: every occurrence of old, found from left to right without
\* overlap, gives way to new; the text put in is not searched again
RECURSIVE Replace(_, _, _)
Replace(s, old, new) ==
    LET i == Find(s, old)
    IN IF i = 0 THEN s
       ELSE SubSeq(s, 1, i - 1) \o new
                \o Replace(SubSeq(s, i + Len(old), Len(s)), old, new)

\* the abstract put in first and the topic description last
UserMessageAbstractFirst(topic_desc, title, conf, year, abstract) ==
    Replace(Replace(Replace(Replace(Replace(PPFILTER_USRPROMPT,
        PlaceholderAbstract, abstract),
        PlaceholderYear, year),
        PlaceholderVenue, conf),
        PlaceholderTitle, title),
        PlaceholderTopic, topic_desc)

\* the chain of replacements that builds ppfilter_user
UserMessage(topic_desc, title, conf, year, abstract) ==
    Replace(Replace(Replace(Replace(Replace(PPFILTER_USRPROMPT,
        PlaceholderTopic, topic_desc),
        PlaceholderTitle, title),
        PlaceholderVenue, conf),
        PlaceholderYear, year),
        PlaceholderAbstract, abstract)

Placeholders == {PlaceholderTopic, PlaceholderTitle, PlaceholderVenue,
                 PlaceholderYear, PlaceholderAbstract}

\* the values a run can be given: plain text, or text that is a placeholder
TopicTexts == {<<"v","i","s","i","o","n">>} \cup Placeholders
TitleTexts == {<<"A">>} \cup Placeholders
AbstractTexts == {<<"x">>} \cup Placeholders
VenueTexts == {<<"C","V","P","R">>, PlaceholderTitle, PlaceholderYear}
YearTexts == {<<"2","0","2","5">>, PlaceholderVenue, PlaceholderAbstract}

InitPrompt ==
    /\ NoRun
    /\ pc = "build"
    /\ statements = << >>
    /\ llm_output = None
    /\ conclusion = None
    /\ ppfilter_user = << >>
    /\ prompt_args \in [topic_desc : TopicTexts, title : TitleTexts,
                        conf : VenueTexts, year : YearTexts,
                        abstract : AbstractTexts]

BuildPrompt ==
    /\ pc = "build"
    /\ ppfilter_user' = UserMessage(prompt_args.topic_desc, prompt_args.title,
                                    prompt_args.conf, prompt_args.year,
                                    prompt_args.abstract)
    /\ pc' = "built"
    /\ UNCHANGED <<statements, llm_output, conclusion, prompt_args>>
    /\ UNCHANGED run

NextPrompt == BuildPrompt

SpecPrompt == InitPrompt /\ [][NextPrompt]_vars


\* =================================================================== claims
IsPrefix(s, t) == Len(s) <= Len(t) /\ SubSeq(t, 1, Len(s)) = s

\* r is the ClassificationResult of paper ppinfo
IsResultOf(r, ppinfo) ==
    /\ DOMAIN r = {"paper_title", "paper_abstract", "is_of_topic", "llm_analysis"}
    /\ r.paper_title = ppinfo.title
    /\ r.paper_abstract = ppinfo.abstract
    /\ r.llm_analysis \in JudgeReplies

\* items is the header followed by one result per input paper, in input order
IsFullReport(items) ==
    /\ Len(items) = Len(ppinfo_list) + 1
    /\ \E t \in Topics : items[1] = Header(t)
    /\ \A k \in 1..Len(ppinfo_list) : IsResultOf(items[k + 1], ppinfo_list[k])

\* the records a reader of the log gets: its lines that parse
LogRecords(file) == SelectSeq(Lines(file.items), LAMBDA line : line # Unparseable)

\* C1 as claimed: in a classification run that started without a log file,
\* as long as the log has not been deleted, the log holds exactly one record
\* per finished paper, record k being the result of input paper k.  The
\* records of the log are the lines a reader can parse.
C1_LogHoldsFinishedPapers ==
    (mode = "classify" /\ ~Exists(logAtStart) /\ ~removed) =>
        LET records == LogRecords(logFile)
        IN /\ Len(records) = done
           /\ done <= Len(ppinfo_list)
           /\ \A k \in 1..done : IsResultOf(records[k], ppinfo_list[k])

\* C1 amended: in such a run the log holds the records of the finished
\* papers, record k being the result of input paper k, and after them at most
\* the line of the paper in flight, whose write failed: cut short, which is
\* no record, or complete but for its newline, which a reader takes as the
\* record of that paper.  At most one answered judge call is not in the log.
C1_LogHoldsFinishedAndInFlight ==
    (mode = "classify" /\ ~Exists(logAtStart) /\ ~removed) =>
        LET records == LogRecords(logFile)
        IN /\ Len(records) \in {done, done + 1}
           /\ done <= Len(ppinfo_list)
           /\ \A k \in 1..Len(records) :
                  /\ k <= Len(ppinfo_list)
                  /\ IsResultOf(records[k], ppinfo_list[k])
                  /\ records[k] = replies[k + 1]
           /\ \A k \in 1..done : logFile.items[k] = replies[k + 1]
           /\ Len(logFile.items) \in {done, done + 1}
           /\ Len(logFile.items) = done + 1 =>
                  /\ pc = "log_failed"
                  /\ logFile.items[done + 1] \in {TornLine, Unterminated(replies[done + 2])}
           /\ replies # << >> => Len(replies) - 1 - done \in {0, 1}

\* the write of the line of the second of two papers failed at its newline:
\* one paper is finished, a reader of the log finds the records of both
C1_Witness ==
    /\ pc = "log_failed"
    /\ mode = "classify" /\ ~Exists(logAtStart) /\ ~removed
    /\ Len(ppinfo_list) = 2 /\ done = 1
    /\ logFile.items = << replies[2], Unterminated(replies[3]) >>
    /\ LogRecords(logFile) = << replies[2], replies[3] >>
    /\ ~Exists(outFile)

\* C2: the log is removed only by a step taken when the output file holds
\* the complete report (the header and every result), and a run whose report
\* write failed has not removed the log.
C2_LogRemovedOnlyAfterReport ==
    /\ [][(Exists(logFile) /\ ~Exists(logFile')) =>
              (outFile.st = "whole" /\ outFile.items = replies /\ IsFullReport(outFile.items))]_vars
    /\ [](pc = "report_failed" =>
              (~removed /\ logFile.items = logAtStart.items \o Tail(replies)
                        /\ (ppinfo_list # << >> => Exists(logFile))))

\* the write of the report raised after two papers were logged
C2_Witness ==
    /\ pc = "report_failed"
    /\ outFile.st = "partial"
    /\ Len(ppinfo_list) = 2
    /\ Exists(logFile) /\ Len(logFile.items) = 2

\* C3 as claimed: in a run that started with no file at the output path the
\* output file is absent or holds the header followed by all N results.
C3_NoPartialReport ==
    (mode = "classify" /\ ~Exists(outAtStart)) =>
        (~Exists(outFile) \/ (outFile.st = "whole" /\ IsFullReport(outFile.items)))

\* C4: when the judge call for paper k = done + 1 raises, the papers sent to
\* the judge are 1..k, the log is what it was at the start of the run
\* followed by the results of papers 1..k-1 and nothing else, and the run
\* takes no further step (the next step, if any, starts a new run).  The log
\* is compared as written, line by line.
C4_JudgeFailureHalts ==
    /\ [](pc = "judge_failed" =>
            /\ judgeCalls = [k \in 1..(done + 1) |-> k]
            /\ Len(replies) = done + 1
            /\ logFile.items = logAtStart.items \o Tail(replies)
            /\ \A k \in 1..done :
                   IsResultOf(logFile.items[Len(logAtStart.items) + k], ppinfo_list[k]))
    /\ [][pc = "judge_failed" => runs' = runs + 1]_vars

\* the judge raised on the second of two papers; the first is in the log
C4_Witness ==
    /\ pc = "judge_failed"
    /\ Len(ppinfo_list) = 2 /\ done = 1
    /\ Len(judgeCalls) = 2
    /\ Len(logFile.items) = Len(logAtStart.items) + 1

\* the complete report of this run has been written to the output file
ReportWritten == mode = "classify" /\ (pc \in {"remove", "prompt", "remove_failed"} \/ removed)

\* C5: once the report is written it has N + 1 elements, the header first
\* and then the result of input paper k at index k, for every N >= 0.
C5_ReportKeepsInputOrder ==
    ReportWritten =>
        /\ outFile.st = "whole"
        /\ Len(outFile.items) = Len(ppinfo_list) + 1
        /\ outFile.items[1] \in { Header(t) : t \in Topics }
        /\ \A k \in 1..Len(ppinfo_list) :
               /\ outFile.items[k + 1].paper_title = ppinfo_list[k].title
               /\ outFile.items[k + 1].paper_abstract = ppinfo_list[k].abstract
               /\ "is_of_topic" \in DOMAIN outFile.items[k + 1]

\* the report of the papers B, A was written
C5_Witness ==
    /\ ReportWritten
    /\ ppinfo_list = <<PaperB, PaperA>>
    /\ Len(outFile.items) = 3
    /\ outFile.items[2].paper_title = "B" /\ outFile.items[3].paper_title = "A"

\* C6 as claimed: whenever the log is deleted, every record it holds at
\* that moment is an element of the report in the output file.
C6_DeletedLogIsInReport ==
    [][(Exists(logFile) /\ ~Exists(logFile')) =>
           \A k \in DOMAIN logFile.items :
               \E m \in DOMAIN outFile.items : outFile.items[m] = logFile.items[k]]_vars

\* C7: while the log exists, every step leaves its earlier content as a
\* prefix of its later content, in the run that created it and in later runs.
C7_LogOnlyGrows ==
    [][(Exists(logFile) /\ Exists(logFile')) => IsPrefix(logFile.items, logFile'.items)]_vars

\* a second run appended a record to the log that the first run left behind
C7_Witness ==
    /\ runs = 2
    /\ Exists(logAtStart) /\ Len(logAtStart.items) >= 1
    /\ Exists(logFile) /\ Len(logFile.items) > Len(logAtStart.items)
    /\ IsPrefix(logAtStart.items, logFile.items)

\* the verdicts a record may carry: -1, 0, 1 or null
Verdicts == {Some(-1), Some(0), Some(1), None}

\* the results in a sequence of records (the records other than the header)
Results(items) == { items[k] : k \in { j \in DOMAIN items : "is_of_topic" \in DOMAIN items[j] } }

\* C8: a result whose judge reply is "Result: 10" carries the verdict null,
\* it is appended to the report and then to the log and the loop goes on
\* (the step that appends it to the log leads to the next judge call or to
\* the writing of the report), and every verdict in the in-memory report,
\* the log and the output file is -1, 0, 1 or null.
C8_UnparseableReplyIsNull ==
    /\ [](mode = "classify" =>
            \A r \in Results(replies) \cup Results(logFile.items) \cup Results(outFile.items) :
                /\ r.is_of_topic \in Verdicts
                /\ r.llm_analysis = Some(ReplyOutOfRange) => r.is_of_topic = None
                /\ r.llm_analysis = Some(ReplyRelevant) => r.is_of_topic = Some(1))
    /\ [][(pc = "judge" /\ pc' = "log_open") =>
              /\ replies' = Append(replies, replies'[Len(replies')])
              /\ replies'[Len(replies')].is_of_topic \in Verdicts]_vars
    /\ [][(pc = "log_write" /\ pc' \notin {"log_failed", "interrupted"}) =>
              /\ logFile'.items = Append(logFile.items, replies[Len(replies)])
              /\ pc' = IF done' < Len(ppinfo_list) THEN "judge" ELSE "report_open"]_vars

\* the first of two papers got an unparseable reply and the verdict null, the
\* second was classified after it, and both are in the written report
C8_Witness ==
    /\ mode = "classify" /\ pc = "remove"
    /\ Len(ppinfo_list) = 2
    /\ outFile.st = "whole" /\ Len(outFile.items) = 3
    /\ outFile.items[2].llm_analysis = Some(ReplyOutOfRange)
    /\ outFile.items[2].is_of_topic = None
    /\ outFile.items[3].is_of_topic = Some(1)
    /\ Len(logFile.items) >= 2
    /\ logFile.items[Len(logFile.items) - 1].is_of_topic = None

\* the verdict test of the claim, on a record and an accepted set
HasAcceptedVerdict(r, accepted) ==
    /\ "is_of_topic" \in DOMAIN r
    /\ r.is_of_topic # None
    /\ r.is_of_topic[1] \in accepted

\* C9: a written export is the subsequence, in input order, of the records
\* whose verdict is not null and is in the accepted set; no record with a null
\* or missing verdict is in it.
C9_ExportIsAcceptedSubsequence ==
    exported =>
        /\ exportFile.st = "whole"
        /\ exportFile.items = SelectSeq(replies, LAMBDA r : HasAcceptedVerdict(r, approved_topics))
        /\ \A k \in DOMAIN exportFile.items :
               /\ "is_of_topic" \in DOMAIN exportFile.items[k]
               /\ exportFile.items[k].is_of_topic # None

\* the document held two accepted records around a header; the export holds
\* the two records in their order
C9_Witness ==
    /\ exported
    /\ approved_topics = {-1, 0, 1}
    /\ replies = <<LoadedRecord("B", Some(0)), Header("vision"), LoadedRecord("A", Some(1))>>
    /\ exportFile.items = <<LoadedRecord("B", Some(0)), LoadedRecord("A", Some(1))>>

\* C10 as claimed: the export file is opened and written only after a
\* selection that is a non-empty subset of {-1, 0, 1}.
C10_ExportOnlyForSubset ==
    (exported \/ pc \in {"export_open", "export_write", "export_failed"}) =>
        (approved_topics # {} /\ approved_topics \subseteq {-1, 0, 1})

\* the value a statement states
ValueOf(st) ==
    IF st.value = MinusOne THEN -1 ELSE IF st.value = <<"1">> THEN 1 ELSE 0

\* the word "result" whatever the case of its letters; the long s is a
\* lower-case form of the letter s
IsResultKeyword(keyword) == keyword \in {KeywordResult, KeywordUpper, KeywordLongS}

\* a result statement with one of the three values and nothing next to it
WellFormed(st) ==
    /\ IsResultKeyword(st.keyword)
    /\ st.value \in ValueTokens
    /\ st.before = << >>
    /\ st.after = << >>

LastWellFormed(sts) ==
    LET ks == { k \in DOMAIN sts : WellFormed(sts[k]) }
    IN IF ks = {} THEN None ELSE Some(ValueOf(sts[Max(ks)]))

IsPlain(sts) == \A k \in DOMAIN sts : sts[k] \in PlainStatements

\* C11: of several well-formed result statements in a judge reply,
\* extract_conclusion returns the value of the last one; it returns null
\* exactly when the reply is not text, is empty, or has no well-formed result
\* statement.
C11_LastStatementWins ==
    (pc = "extracted" /\ IsPlain(statements)) =>
        conclusion = IF llm_output = None THEN None
                     ELSE LastWellFormed(statements)

\* a reply whose first statement says 1 and whose last says -1 gave -1
C11_Witness ==
    /\ pc = "extracted"
    /\ Len(statements) = 3
    /\ \A k \in DOMAIN statements : WellFormed(statements[k])
    /\ ValueOf(statements[1]) = 1
    /\ ValueOf(statements[3]) = -1
    /\ conclusion = Some(-1)

IsSingleForm(sts) == Len(sts) = 1 /\ sts[1] \in Forms

\* C12 as stated: a single result statement with value token v gives v in
\* every form (with or without colon, with or without markup), and gives null
\* whenever a digit (of any script) stands directly before or after the value
\* token.
C12_AnyAdjacentDigitIsNull ==
    (pc = "extracted" /\ IsSingleForm(statements)) =>
        conclusion = IF WellFormed(statements[1])
                     THEN Some(ValueOf(statements[1]))
                     ELSE None

\* what the statement gives when a digit stands next to its value token
AdjacentVerdict(st) ==
    IF st.after # << >> THEN None
    ELSE IF st.value # MinusOne THEN None
    ELSE IF st.before \in {<<"0">>, <<"1">>} THEN Some(DigitsVal(st.before))
    ELSE None

\* C12 amended: a single result statement with value token v gives v in every
\* form; it gives null when a digit directly follows the value token, and when
\* a digit directly precedes a value token 0 or 1.  When a digit directly
\* precedes the value token -1, the minus sign ends the statement: a
\* preceding 0 or 1 is read as the value, any other digit gives null.
C12_ValueFormsAndAdjacentDigits ==
    (pc = "extracted" /\ IsSingleForm(statements)) =>
        conclusion = IF WellFormed(statements[1])
                     THEN Some(ValueOf(statements[1]))
                     ELSE AdjacentVerdict(statements[1])

\* the statement with a full-width colon and the bold token 0-1 gave 0
C12_Witness ==
    /\ pc = "extracted"
    /\ statements = << Statement(KeywordResult, <<FullWidthColon>>, Bold,
                                 <<"0">>, MinusOne, << >>) >>
    /\ conclusion = Some(0)

\* C13: filtering is idempotent: the filter applied with the same accepted
\* set to the records it exported returns them unchanged, same records in the
\* same order.
C13_FilterIsIdempotent ==
    exported =>
        RepliesOfTopic(exportFile.items, approved_topics, 1) = exportFile.items

\* an export that kept two of three records and dropped a null verdict
C13_Witness ==
    /\ exported
    /\ approved_topics = {-1, 0}
    /\ replies = <<LoadedRecord("B", Some(0)), LoadedRecord("D", None),
                   LoadedRecord("B", Some(0))>>
    /\ exportFile.items = <<LoadedRecord("B", Some(0)), LoadedRecord("B", Some(0))>>

\* C14: classification is strictly sequential in input order: the judge is
\* called once per paper, in input order, and the call for paper i+1 starts
\* only when the result of paper i is in the log, after whatever the log held
\* when the run started.
C14_OnePaperAtATime ==
    /\ [](mode = "classify" =>
            /\ judgeCalls = [k \in 1..Len(judgeCalls) |-> k]
            /\ Len(judgeCalls) \in {done, done + 1}
            /\ Len(judgeCalls) <= Len(ppinfo_list)
            /\ pc \in {"report_open", "report_write", "remove", "prompt"} =>
                   Len(judgeCalls) = Len(ppinfo_list))
    /\ [][Len(judgeCalls') = Len(judgeCalls) + 1 =>
            /\ judgeCalls' = Append(judgeCalls, done + 1)
            /\ done >= 1 => Exists(logFile)
            /\ logFile.items = logAtStart.items \o Tail(replies)
            /\ Len(logFile.items) = Len(logAtStart.items) + done
            /\ \A k \in 1..done :
                   IsResultOf(logFile.items[Len(logAtStart.items) + k], ppinfo_list[k])]_vars

\* the second call of a run that found a log: the first result is behind it
C14_Witness ==
    /\ pc = "log_open"
    /\ Exists(logAtStart)
    /\ Len(ppinfo_list) = 2
    /\ judgeCalls = <<1, 2>>
    /\ done = 1
    /\ Len(replies) = 3
    /\ logFile.items = logAtStart.items \o << replies[2] >>

\* the value that belongs in the place of a placeholder
ValueFor(placeholder, args) ==
    IF placeholder = PlaceholderTopic THEN args.topic_desc
    ELSE IF placeholder = PlaceholderTitle THEN args.title
    ELSE IF placeholder = PlaceholderVenue THEN args.conf
    ELSE IF placeholder = PlaceholderYear THEN args.year
    ELSE args.abstract

StartsWith(s, i, t) ==
    i + Len(t) - 1 <= Len(s) /\ SubSeq(s, i, i + Len(t) - 1) = t

\* the template read once from left to right, each placeholder giving way to
\* its value and no value read again
RECURSIVE FilledOnce(_, _, _)
FilledOnce(s, i, args) ==
    LET starts == { k \in i..Len(s) : \E p \in Placeholders : StartsWith(s, k, p) }
    IN IF starts = {} THEN SubSeq(s, i, Len(s))
       ELSE LET k == CHOOSE m \in starts : \A n \in starts : m <= n
                p == CHOOSE q \in Placeholders : StartsWith(s, k, q)
            IN SubSeq(s, i, k - 1) \o ValueFor(p, args)
                   \o FilledOnce(s, k + Len(p), args)

Occurrences(s, i, t) == Cardinality({ k \in i..Len(s) : StartsWith(s, k, t) })

Contains(s, t) == \E i \in DOMAIN s : StartsWith(s, i, t)

\* C15 as stated: for any topic description, title, venue, year and abstract
\* the user message is the template with each of the five placeholders
\* replaced once by its value, and no value put in is replaced again.
C15_EachPlaceholderReplacedOnce ==
    pc = "built" =>
        /\ \A p \in Placeholders : Occurrences(PPFILTER_USRPROMPT, 1, p) = 1
        /\ ppfilter_user = FilledOnce(PPFILTER_USRPROMPT, 1, prompt_args)

\* the order of the replacements
SubstitutionOrder ==
    <<PlaceholderTopic, PlaceholderTitle, PlaceholderVenue, PlaceholderYear,
      PlaceholderAbstract>>

\* no value holds the placeholder of a replacement made after its own
NoLaterPlaceholder(args) ==
    \A i, j \in DOMAIN SubstitutionOrder :
        i < j => ~Contains(ValueFor(SubstitutionOrder[i], args), SubstitutionOrder[j])

\* C15 amended: the replacements are made one after the other in the order
\* topic description, title, venue, year, abstract.  When no value holds the
\* placeholder of a later replacement, the user message is the template with
\* each of the five placeholders replaced once by its value; a value that
\* holds its own or an earlier placeholder keeps it as it is.
C15_ReplacedOnceInOrder ==
    (pc = "built" /\ NoLaterPlaceholder(prompt_args)) =>
        /\ \A p \in Placeholders : Occurrences(PPFILTER_USRPROMPT, 1, p) = 1
        /\ ppfilter_user = FilledOnce(PPFILTER_USRPROMPT, 1, prompt_args)

\* a title that is the topic placeholder stayed in the message as it is
C15_Witness ==
    /\ pc = "built"
    /\ prompt_args.topic_desc = <<"v","i","s","i","o","n">>
    /\ prompt_args.title = PlaceholderTopic
    /\ prompt_args.abstract = PlaceholderTitle
    /\ NoLaterPlaceholder(prompt_args)
    /\ Occurrences(ppfilter_user, 1, PlaceholderTopic) = 1
    /\ Occurrences(ppfilter_user, 1, PlaceholderTitle) = 1
    /\ ppfilter_user = FilledOnce(PPFILTER_USRPROMPT, 1, prompt_args)

\* os.remove raised although the log is there: the process may not remove it
RemoveRefused == pc = "remove_failed" /\ Exists(logFile)

\* C16: a run whose judge calls and file writes all succeed, and whose
\* removal of the log is not refused, ends normally for every number of
\* papers, none included: once the report is written the removal of the log
\* raises nothing, no log is left, and the run goes on to the selection prompt
\* of the export.
C16_SuccessfulRunReachesExport ==
    (ReportWritten /\ pc # "remove" /\ ~RemoveRefused) =>
        /\ pc # "remove_failed"
        /\ ~Exists(logFile)
        /\ outFile.st = "whole"
        /\ IsFullReport(outFile.items)

====
